---- MODULE Spec2Model ----
(***************************************************************************)
(* Model of src/kritika_botren.py: a Telegram bot that relays text         *)
(* messages to a generative-language chat session kept per chat id.        *)
(*                                                                         *)
(* State: the process phase, the environment secrets, the module-level     *)
(* dict `conversations`, the chat-session objects the model client has     *)
(* handed out (with their histories), and one record per handler           *)
(* coroutine holding its local variables and its position (pc).            *)
(*                                                                         *)
(* A coroutine only yields at an `await`.  Each action below is one        *)
(* resumption of a handler: it runs the code from one await (or from the   *)
(* dispatch of the update) to the next await or to the end of the handler. *)
(* chat_session.send_message (line 122) is a synchronous call, so it is    *)
(* not a yield point.                                                      *)
(***************************************************************************)
EXTENDS Integers, Sequences, FiniteSets, TLC

\* ---- bounds of the model -------------------------------------------------
MaxEvents == 2      \* updates dispatched in one run
MaxHandlers == 2    \* handler coroutines that may be in flight together
MaxParts == 2       \* longest response.parts the model client returns

\* ---- input domains -------------------------------------------------------
\* Chat 42 is a private chat whose sender is Asha; chat 7 delivers updates
\* without an effective_user (a channel post).
Chats == {7, 42}
NoUser == "<no effective_user>"
Sender(c) == IF c = 42 THEN "Asha" ELSE NoUser
NoText == "<None>"
Texts == {NoText, "", "How are you?"}
NoAttr == "<no text attribute>"
ReplyTexts == {"I am well", "Namaste"}
FieldTexts == {NoAttr, ""} \cup ReplyTexts

\* A text payload is the sequence of its fragments.
Placeholder == "dost"
FallbackEmpty == <<"maaf karen, kuchh gadbad ho gayi">>
FallbackError == <<"kshama karen, baad mein koshish karen">>

VARIABLES
    proc,           \* "init" | "polling" | "exit1"
    env,            \* which secrets the environment supplies
    conversations,  \* the dict: a set of <<chat_id, session id>> items
    sessions,       \* sessions[s] = history of the s-th start_chat() object
    h,              \* h[i] = locals and position of handler coroutine i
    last,           \* the handler that finished in the step just taken, if any
    events          \* number of updates dispatched so far

vars == <<proc, env, conversations, sessions, h, last, events>>

Slots == 1..MaxHandlers

\* ---- helpers translated from the handlers --------------------------------

\* Variant: only an absent text counts, as in `user_message is None`.
FalsyNone(text) == text = NoText

\* `not user_message` (line 102): None and the empty string are both falsy.
Falsy(text) == text = NoText \/ text = ""

\* `update.effective_user.first_name if update.effective_user else ...`
\* (lines 83 and 100).
FirstName(user) == IF user = NoUser THEN Placeholder ELSE user

\* The f-string of line 118: the display name and the raw text in a template.
Prompt(name, text) == <<"naam:", name, "sandesh:", text>>

\* Variant: the welcome text does not interpolate the name.
WelcomeNameless(name) == <<"Hi! Main Kritika hoon">>

\* The f-string of lines 88-94.
Welcome(name) == <<"Hi ", name, "! Main Kritika hoon">>

\* `text=bot_reply` (line 136): the reply as it is.
Verbatim(reply) == <<reply>>

\* `chat_id in conversations` and `conversations[chat_id]` on the dict.
Keys(d) == {item[1] : item \in d}

\* Variant: the lookup ignores the key and yields some chat's session.
LookupAny(d, k) == (CHOOSE item \in d : TRUE)[2]

Lookup(d, k) == (CHOOSE item \in d : item[1] = k)[2]

\* Variant: the assignment rebinds the dict to one holding only the new item.
DictSetOnly(d, k, v) == {<<k, v>>}

\* Variant: the item is added and the old item of the key is kept.
DictSetKeep(d, k, v) == d \cup {<<k, v>>}

\* `conversations[chat_id] = session` (lines 84 and 109): item assignment
\* replaces whatever the key held.
DictSet(d, k, v) == {item \in d : item[1] # k} \cup {<<k, v>>}

\* `model.start_chat(history=[])`: a new session object with empty history.
\* Its identity is its index in `sessions`.
StartChat(ss) == Append(ss, <<>>)

\* Variant: the start flow keeps a session the chat already has.
ResetIfAbsent(d, k, fresh) ==
    IF k \in {item[1] : item \in d} THEN d ELSE DictSet(d, k, fresh)

\* Line 84: the start flow stores the new session unconditionally.
Reset(d, k, fresh) == DictSet(d, k, fresh)

\* Variant: the message flow calls start_chat for every message.
StartChatAlways(d, k, ss) == StartChat(ss)

\* Lines 108-109: start_chat is called only when the key is absent.
StartChatIfAbsent(d, k, ss) == IF k \in Keys(d) THEN ss ELSE StartChat(ss)

\* Lines 108-110: the message flow stores a new session only when the key is
\* absent.
GetOrCreate(d, k, fresh) == IF k \notin Keys(d) THEN DictSet(d, k, fresh) ELSE d

\* `hasattr(x, "text") and x.text` (lines 126 and 130).
HasText(field) == field # NoAttr /\ field # ""

\* Lines 129-132: the first part, in order, with non-empty text.  A part is
\* modelled by its text field.
RECURSIVE FirstPartText(_)
FirstPartText(parts) ==
    IF parts = <<>> THEN ""
    ELSE IF HasText(Head(parts)) THEN Head(parts)
    ELSE FirstPartText(Tail(parts))

\* Variant: the parts are looked at before the direct text field.
ExtractReplyPartsFirst(response) ==
    IF FirstPartText(response.parts) # "" THEN FirstPartText(response.parts)
    ELSE IF HasText(response.text) THEN response.text
    ELSE ""

\* Lines 125-132.
ExtractReply(response) ==
    IF HasText(response.text) THEN response.text
    ELSE IF Len(response.parts) > 0 THEN FirstPartText(response.parts)
    ELSE ""

\* What the model client may return from send_message (line 122).
PartSeqs == UNION {[1..n -> FieldTexts] : n \in 0..MaxParts}
Responses == [text : FieldTexts, parts : PartSeqs]
NoResponse == [text |-> NoAttr, parts |-> <<>>]

\* One response of each kind: a direct text, an empty direct text, a single
\* part with text, a single part with empty text.
PlainResponses ==
    {[text |-> "I am well", parts |-> <<>>],
     [text |-> "", parts |-> <<>>],
     [text |-> NoAttr, parts |-> <<"Namaste">>],
     [text |-> NoAttr, parts |-> <<"">>]}

\* ---- handler coroutines ---------------------------------------------------
\* pc: "idle" (no coroutine in the slot) or the await the coroutine is
\* suspended at: "start_send" (86), "gen_indicator" (116), "gen_send_reply"
\* (136), "gen_send_empty" (139), "gen_send_error" (145).  A finished handler
\* has pc "returned" or "raised", in `last`.
\* sent: the messages send_message delivered; attempts: the calls of
\* send_message; indicator and lm: the outcome of send_chat_action and of
\* chat_session.send_message; created: line 109 ran.
Idle == [pc |-> "idle", kind |-> "none", chat |-> 0, name |-> Placeholder,
         text |-> NoText, session |-> 0, response |-> NoResponse,
         bot_reply |-> "", sent |-> <<>>, attempts |-> 0,
         indicator |-> "none", lm |-> "none", created |-> FALSE]

Awaiting == {"start_send", "gen_indicator", "gen_send_reply",
             "gen_send_empty", "gen_send_error"}

\* An update is handed to the lowest free coroutine slot.
FreeSlot(i) ==
    /\ h[i].pc = "idle"
    /\ \A j \in Slots : j < i => h[j].pc # "idle"

\* The except clause of lines 143-148 is entered: send_message is called with
\* the second fixed string and awaited.
EnterExcept(rec) == [rec EXCEPT !.pc = "gen_send_error", !.attempts = @ + 1]

\* Variant: the extracted reply is sent whether or not it is empty.
RelayUnchecked(rec, response) ==
    [rec EXCEPT !.response = response,
                !.bot_reply = ExtractReply(response),
                !.attempts = @ + 1,
                !.pc = "gen_send_reply"]

\* Lines 125-142 up to the await: the reply is extracted and send_message is
\* called with it, or with the first fixed string when it is empty.
Relay(rec, response) ==
    [rec EXCEPT !.response = response,
                !.bot_reply = ExtractReply(response),
                !.attempts = @ + 1,
                !.pc = IF ExtractReply(response) # "" THEN "gen_send_reply"
                       ELSE "gen_send_empty"]

\* Variant: the except clause discards the session of the chat.
ExceptRegistryDrop(d, k) == {item \in d : item[1] # k}

\* Variant: the except clause starts over with an empty registry.
ExceptRegistryClear(d, k) == {}

\* The except clause of lines 143-148 does nothing to `conversations`.
ExceptRegistry(d, k) == d

\* Variant: the second fixed string follows every delivered message, as if
\* the except clause were a finally clause.
DeliveredThenFallback(rec, text) ==
    [rec EXCEPT !.sent = <<[chat |-> rec.chat, text |-> text],
                          [chat |-> rec.chat, text |-> FallbackError]>>,
                !.pc = "returned"]

\* send_message returned: the text reached the chat and the handler ends.
Delivered(rec, text) ==
    [rec EXCEPT !.sent = Append(@, [chat |-> rec.chat, text |-> text]),
                !.pc = "returned"]

\* An exception that leaves a handler reaches the Application running under
\* run_polling (line 160), which logs it and goes on polling.
AfterHandlerError(p) == p

Init ==
    /\ proc = "init"
    /\ env \in [google : BOOLEAN, telegram : BOOLEAN]
    /\ conversations = {}
    /\ sessions = <<>>
    /\ h = [i \in Slots |-> Idle]
    /\ last = Idle
    /\ events = 0

\* Variant: the secrets are not looked at before polling starts.
StartupUnchecked ==
    /\ proc = "init"
    /\ proc' = "polling"
    /\ UNCHANGED <<env, conversations, sessions, h, last, events>>

\* Lines 16-35 (secrets), 151-153 (handlers registered), 156-164 (polling).
Startup ==
    /\ proc = "init"
    /\ proc' = IF env.google /\ env.telegram THEN "polling" ELSE "exit1"
    /\ UNCHANGED <<env, conversations, sessions, h, last, events>>

\* /start update: lines 81-86, up to the await of send_message.
DispatchStart(i, c) ==
    /\ proc = "polling" /\ events < MaxEvents /\ FreeSlot(i)
    /\ sessions' = StartChat(sessions)
    /\ conversations' = Reset(conversations, c, Len(sessions'))
    /\ h' = [h EXCEPT ![i] = [Idle EXCEPT !.pc = "start_send", !.kind = "start",
                                 !.chat = c, !.name = FirstName(Sender(c)),
                                 !.text = "/start", !.attempts = 1]]
    /\ events' = events + 1
    /\ last' = Idle
    /\ UNCHANGED <<proc, env>>

\* Text update: lines 97-116, up to the return of line 104 or to the await
\* of send_chat_action.
DispatchMessage(i, c, t) ==
    /\ proc = "polling" /\ events < MaxEvents /\ FreeSlot(i)
    /\ events' = events + 1
    /\ IF Falsy(t)
       THEN /\ last' = [Idle EXCEPT !.pc = "returned", !.kind = "message",
                                    !.chat = c, !.name = FirstName(Sender(c)),
                                    !.text = t]
            /\ UNCHANGED <<conversations, sessions, h>>
       ELSE /\ sessions' = StartChatIfAbsent(conversations, c, sessions)
            /\ conversations' = GetOrCreate(conversations, c, Len(sessions'))
            /\ h' = [h EXCEPT ![i] = [Idle EXCEPT !.pc = "gen_indicator",
                                         !.kind = "message", !.chat = c,
                                         !.name = FirstName(Sender(c)),
                                         !.text = t,
                                         !.session = Lookup(conversations', c),
                                         !.created = (c \notin Keys(conversations))]]
            /\ last' = Idle
    /\ UNCHANGED <<proc, env>>

\* The await of line 116 completes.  If it raised, control goes to the except
\* clause.  Otherwise lines 118-142 run up to the next await: the prompt is
\* built and submitted to the session (a synchronous call), which raises or
\* returns one of `returned`; the reply is extracted and sent.
IndicatorDone(i, returned) ==
    /\ proc = "polling" /\ h[i].pc = "gen_indicator"
    /\ \E indicatorOk \in BOOLEAN, lmOk \in BOOLEAN, r \in returned :
         IF ~indicatorOk
         THEN /\ h' = [h EXCEPT ![i] = EnterExcept([@ EXCEPT !.indicator = "failed"])]
              /\ conversations' = ExceptRegistry(conversations, h[i].chat)
              /\ UNCHANGED sessions
         ELSE IF ~lmOk
         THEN /\ h' = [h EXCEPT ![i] = EnterExcept([@ EXCEPT !.indicator = "ok",
                                                                !.lm = "raised"])]
              /\ conversations' = ExceptRegistry(conversations, h[i].chat)
              /\ UNCHANGED sessions
         ELSE /\ h' = [h EXCEPT ![i] = Relay([@ EXCEPT !.indicator = "ok",
                                                       !.lm = "ok"], r)]
              /\ sessions' = [sessions EXCEPT ![h[i].session] =
                                 Append(@, Prompt(h[i].name, h[i].text))]
              /\ UNCHANGED conversations
    /\ last' = Idle
    /\ UNCHANGED <<proc, env, events>>

\* The await of line 136 completes.
SendReplyDone(i) ==
    /\ proc = "polling" /\ h[i].pc = "gen_send_reply"
    /\ \E ok \in BOOLEAN :
         IF ok THEN /\ last' = Delivered(h[i], Verbatim(h[i].bot_reply))
                    /\ h' = [h EXCEPT ![i] = Idle]
                    /\ UNCHANGED conversations
         ELSE /\ h' = [h EXCEPT ![i] = EnterExcept(@)]
              /\ last' = Idle
              /\ conversations' = ExceptRegistry(conversations, h[i].chat)
    /\ UNCHANGED <<proc, env, sessions, events>>

\* The await of lines 139-142 completes.
SendEmptyDone(i) ==
    /\ proc = "polling" /\ h[i].pc = "gen_send_empty"
    /\ \E ok \in BOOLEAN :
         IF ok THEN /\ last' = Delivered(h[i], FallbackEmpty)
                    /\ h' = [h EXCEPT ![i] = Idle]
                    /\ UNCHANGED conversations
         ELSE /\ h' = [h EXCEPT ![i] = EnterExcept(@)]
              /\ last' = Idle
              /\ conversations' = ExceptRegistry(conversations, h[i].chat)
    /\ UNCHANGED <<proc, env, sessions, events>>

\* The await of lines 145-148 completes; nothing encloses it, so a failure
\* leaves the handler.
SendErrorDone(i) ==
    /\ proc = "polling" /\ h[i].pc = "gen_send_error"
    /\ \E ok \in BOOLEAN :
         IF ok THEN /\ last' = Delivered(h[i], FallbackError)
                    /\ UNCHANGED proc
         ELSE /\ last' = [h[i] EXCEPT !.pc = "raised"]
              /\ proc' = AfterHandlerError(proc)
    /\ h' = [h EXCEPT ![i] = Idle]
    /\ UNCHANGED <<env, conversations, sessions, events>>

\* The await of lines 86-95 completes; nothing encloses it either.
StartSendDone(i) ==
    /\ proc = "polling" /\ h[i].pc = "start_send"
    /\ \E ok \in BOOLEAN :
         IF ok THEN /\ last' = Delivered(h[i], Welcome(h[i].name))
                    /\ UNCHANGED proc
         ELSE /\ last' = [h[i] EXCEPT !.pc = "raised"]
              /\ proc' = AfterHandlerError(proc)
    /\ h' = [h EXCEPT ![i] = Idle]
    /\ UNCHANGED <<env, conversations, sessions, events>>

Resume(i) ==
    \/ IndicatorDone(i, PlainResponses)
    \/ SendReplyDone(i)
    \/ SendEmptyDone(i)
    \/ SendErrorDone(i)
    \/ StartSendDone(i)

\* Handlers of several updates in flight together, interleaved at their
\* awaits.
Next ==
    \/ Startup
    \/ \E i \in Slots, c \in Chats : DispatchStart(i, c)
    \/ \E i \in Slots, c \in Chats, t \in Texts : DispatchMessage(i, c, t)
    \/ \E i \in Slots : IndicatorDone(i, PlainResponses)
    \/ \E i \in Slots : SendReplyDone(i)
    \/ \E i \in Slots : SendEmptyDone(i)
    \/ \E i \in Slots : SendErrorDone(i)
    \/ \E i \in Slots : StartSendDone(i)

Spec == Init /\ [][Next]_vars

\* The event loop resumes a coroutine once the operation it awaits has
\* completed, and the external calls complete (by returning or raising).
FairSpec == Spec /\ WF_vars(\E i \in Slots : Resume(i))

\* Variant: the Application is built with concurrent_updates, so an update
\* is taken whenever a coroutine slot is free.
AnyInFlight == TRUE

\* The Application of line 151 is built without concurrent_updates: it takes
\* the next update only when the handler of the previous one has finished.
NoneInFlight == \A j \in Slots : h[j].pc = "idle"

SeqNext ==
    \/ Startup
    \/ \E i \in Slots, c \in Chats : NoneInFlight /\ DispatchStart(i, c)
    \/ \E i \in Slots, c \in Chats, t \in Texts :
          NoneInFlight /\ DispatchMessage(i, c, t)
    \/ \E i \in Slots : IndicatorDone(i, Responses)
    \/ \E i \in Slots : SendReplyDone(i)
    \/ \E i \in Slots : SendEmptyDone(i)
    \/ \E i \in Slots : SendErrorDone(i)
    \/ \E i \in Slots : StartSendDone(i)

SeqSpec == Init /\ [][SeqNext]_vars

TypeOK ==
    /\ proc \in {"init", "polling", "exit1"}
    /\ events \in 0..MaxEvents
    /\ \A item \in conversations : item[1] \in Chats /\ item[2] \in 1..Len(sessions)
    /\ \A i \in Slots : h[i].pc \in Awaiting \cup {"idle"}
    /\ last.pc \in {"idle", "returned", "raised"}

\* ---- properties -----------------------------------------------------------
Finished(rec) == rec.pc \in {"returned", "raised"}

\* The record is a start handler, or a message handler whose text is neither
\* absent nor empty.
Emitting(rec) ==
    \/ rec.kind = "start"
    \/ rec.kind = "message" /\ rec.text \notin {NoText, ""}

\* The handler entered the except clause: an awaited or called step raised.
Excepted(rec) ==
    rec.indicator = "failed" \/ rec.lm = "raised" \/ rec.attempts = 2

\* A handler has just been started in slot i and is suspended at its first
\* await.
Dispatched(i) == h[i].pc = "idle" /\ h'[i].pc # "idle"

UniqueKeys(d) == \A a \in d, b \in d : a[1] = b[1] => a = b

OthersKept(c) ==
    {item \in conversations' : item[1] # c} = {item \in conversations : item[1] # c}

\* Every change of the registry is the start flow storing an entry for its own
\* chat, or the message flow adding an entry for its own chat that had none.
RegistryStep ==
    conversations' # conversations =>
        \E i \in Slots :
            /\ Dispatched(i)
            /\ OthersKept(h'[i].chat)
            /\ \E s \in 1..Len(sessions') : <<h'[i].chat, s>> \in conversations'
            /\ \/ h'[i].kind = "start"
               \/ /\ h'[i].kind = "message"
                  /\ h'[i].text \notin {NoText, ""}
                  /\ \A item \in conversations : item[1] # h'[i].chat

\* C1: in every reachable state the registry holds at most one session per
\* chat id, and it is changed only by the start flow (which overwrites the
\* entry of its chat) and by the message flow (which adds an entry only for a
\* chat that has none and never replaces one).
C1_OneSessionPerChat ==
    /\ [](UniqueKeys(conversations))
    /\ [][RegistryStep]_vars

\* A start has overwritten an entry: more sessions were created than the
\* registry holds, and it still holds one entry per chat.
C1_Witness ==
    /\ conversations # {}
    /\ Len(sessions) > Cardinality(conversations)
    /\ \E i \in Slots : h[i].kind = "message"

\* C2 as stated: every start handler and every message handler with non-empty
\* text has delivered exactly one outbound message when it ends.
C2_Original ==
    (Finished(last) /\ Emitting(last)) => Len(last.sent) = 1

AllowedTexts(rec) ==
    {Welcome(rec.name), Verbatim(rec.bot_reply), FallbackEmpty, FallbackError}

\* C2 amended: such a handler never delivers more than one outbound message;
\* it delivers exactly one (the welcome, the reply or a fixed string, to its
\* own chat) when it returns normally, and none when it ends by propagating
\* the failure of its last send_message call.
C2_ExactlyOneUnlessSendRaises ==
    (Finished(last) /\ Emitting(last)) =>
        /\ Len(last.sent) <= 1
        /\ last.pc = "returned" =>
              /\ Len(last.sent) = 1
              /\ last.sent[1].chat = last.chat
              /\ last.sent[1].text \in AllowedTexts(last)
        /\ last.pc = "raised" => last.sent = <<>>

\* The reply could not be sent, and the second fixed string was delivered.
C2_Witness ==
    /\ last.kind = "message" /\ last.pc = "returned"
    /\ last.lm = "ok" /\ last.bot_reply # "" /\ last.attempts = 2
    /\ last.sent = <<[chat |-> last.chat, text |-> FallbackError]>>

\* C3 as stated: a message handler in which a step from the activity
\* indicator to the sending of the reply raised does not propagate an error:
\* it delivers the second fixed string and returns normally.
C3_NeverPropagates ==
    (last.kind = "message" /\ Finished(last) /\ Excepted(last)) =>
        /\ last.pc = "returned"
        /\ last.sent = <<[chat |-> last.chat, text |-> FallbackError]>>

\* The response carries no usable text: its direct text is absent or empty
\* and no part has non-empty text.
NoUsableText(r) ==
    /\ r.text \in {NoAttr, ""}
    /\ \A k \in 1..Len(r.parts) : r.parts[k] \in {NoAttr, ""}

LmFailed(rec) ==
    /\ rec.kind = "message" /\ Finished(rec)
    /\ \/ rec.lm = "raised"
       \/ rec.lm = "ok" /\ NoUsableText(rec.response)

\* A further update can be handed to a handler.
CanDispatch ==
    events < MaxEvents =>
        /\ ENABLED (\E i \in Slots, c \in Chats : DispatchStart(i, c))
        /\ ENABLED (\E i \in Slots, c \in Chats, t \in Texts : DispatchMessage(i, c, t))

\* C4 as stated: a message handler whose language-model call raised or
\* returned no usable text has delivered exactly one outbound message, a fixed
\* string, and the process goes on handling updates.
C4_Original ==
    LmFailed(last) =>
        /\ Len(last.sent) = 1
        /\ last.sent[1].text \in {FallbackEmpty, FallbackError}
        /\ proc = "polling" /\ CanDispatch

\* C4 amended: such a handler delivers at most one outbound message and only
\* a fixed string; exactly one when it returns normally, none when the send of
\* the second fixed string raises; either way the process goes on polling and
\* the next update can be handled.
C4_FallbackUnlessSendRaises ==
    LmFailed(last) =>
        /\ Len(last.sent) <= 1
        /\ \A k \in 1..Len(last.sent) :
              /\ last.sent[k].text \in {FallbackEmpty, FallbackError}
              /\ last.sent[k].chat = last.chat
        /\ last.pc = "returned" => Len(last.sent) = 1
        /\ last.pc = "raised" => last.sent = <<>>
        /\ last.lm = "raised" /\ last.pc = "returned" =>
              last.sent[1].text = FallbackError
        /\ proc = "polling" /\ CanDispatch

\* The model returned a part without text and the first fixed string went out.
C4_Witness ==
    /\ LmFailed(last) /\ last.lm = "ok" /\ Len(last.response.parts) = 1
    /\ last.sent = <<[chat |-> last.chat, text |-> FallbackEmpty]>>

\* C5 as stated: when send_chat_action fails, the handler still submits the
\* prompt to the language model (and relays what comes back).
C5_IndicatorFailureNonFatal ==
    (last.kind = "message" /\ Finished(last) /\ last.indicator = "failed") =>
        last.lm # "none"

\* A message handler was handed a text that is absent or empty.
IgnoredText(rec) == rec.kind = "message" /\ rec.text \in {NoText, ""}

\* C6: a message update whose text is absent or empty makes the handler return
\* at once: no outbound message, no send_message or send_chat_action call, no
\* language-model call, and the registry and the sessions stay as they were,
\* also when the chat has no session.
C6_EmptyTextIgnored ==
    /\ [](\A i \in Slots : ~IgnoredText(h[i]))
    /\ [](IgnoredText(last) =>
            /\ last.pc = "returned" /\ last.sent = <<>> /\ last.attempts = 0
            /\ last.indicator = "none" /\ last.lm = "none"
            /\ ~last.created /\ last.session = 0)
    /\ [][IgnoredText(last') =>
            /\ events' = events + 1
            /\ conversations' = conversations
            /\ sessions' = sessions
            /\ h' = h]_vars

\* An empty text arrived for a chat without a session, and none was created.
C6_Witness ==
    /\ IgnoredText(last) /\ last.text = ""
    /\ \A item \in conversations : item[1] # last.chat

\* C7: when a start handler is dispatched for chat c, the registry afterwards
\* holds exactly one entry for c, and it is a session created in this step
\* (so none of the sessions that existed before) with empty history.  Two
\* start updates in a row therefore give two distinct sessions, and the
\* registry holds the second.
C7_StartResets ==
    [][\A i \in Slots :
          (Dispatched(i) /\ h'[i].kind = "start") =>
              \E s \in 1..Len(sessions') :
                  /\ s \notin 1..Len(sessions)
                  /\ sessions'[s] = <<>>
                  /\ {item \in conversations' : item[1] = h'[i].chat}
                        = {<<h'[i].chat, s>>}]_vars

\* Two start handlers for the same chat are in flight: two sessions were
\* created and the registry holds the second.
C7_Witness ==
    /\ h[1].kind = "start" /\ h[2].kind = "start" /\ h[1].chat = h[2].chat
    /\ Len(sessions) = 2
    /\ conversations = {<<h[1].chat, 2>>}

FirstMessage(rec) == rec.kind = "message" /\ rec.created

\* C8 as stated: the first message with non-empty text for a chat without a
\* session creates one session, without a start update, and when the handler
\* ends it has delivered exactly one outbound message and the session is the
\* registry's entry for the chat.
C8_Original ==
    (FirstMessage(last) /\ Finished(last)) =>
        /\ Len(last.sent) = 1
        /\ {item \in conversations : item[1] = last.chat}
              = {<<last.chat, last.session>>}

\* C8 amended: such a message creates exactly one session, stored under its
\* chat; the handler delivers at most one outbound message, exactly one when
\* it returns normally and none when its last send_message call raises; and
\* the session is still the registry's entry for the chat when the handler
\* ends, also when the language-model call raised.
C8_LazySession ==
    /\ [][\A i \in Slots :
            (/\ Dispatched(i) /\ h'[i].kind = "message"
             /\ \A item \in conversations : item[1] # h'[i].chat) =>
                /\ Len(sessions') = Len(sessions) + 1
                /\ sessions'[Len(sessions')] = <<>>
                /\ conversations' = conversations \cup {<<h'[i].chat, Len(sessions')>>}
                /\ h'[i].created /\ h'[i].session = Len(sessions')]_vars
    /\ [](\A i \in Slots : FirstMessage(h[i]) =>
            {item \in conversations : item[1] = h[i].chat} = {<<h[i].chat, h[i].session>>})
    /\ []((FirstMessage(last) /\ Finished(last)) =>
            /\ Len(last.sent) <= 1
            /\ last.pc = "returned" => Len(last.sent) = 1
            /\ last.pc = "raised" => last.sent = <<>>
            /\ {item \in conversations : item[1] = last.chat}
                  = {<<last.chat, last.session>>})

\* Chat 7 had no session; the language-model call raised; the second fixed
\* string went out and the session created for 7 is in the registry.
C8_Witness ==
    /\ FirstMessage(last) /\ last.chat = 7 /\ last.lm = "raised"
    /\ last.sent = <<[chat |-> 7, text |-> FallbackError]>>
    /\ <<7, last.session>> \in conversations

\* The reply by precedence: the direct text when present and non-empty, else
\* the text of the first part that has non-empty text, else empty.
UsableParts(r) == {k \in 1..Len(r.parts) : r.parts[k] \notin {NoAttr, ""}}
ReplyByPrecedence(r) ==
    IF r.text \notin {NoAttr, ""} THEN r.text
    ELSE IF UsableParts(r) # {}
         THEN r.parts[CHOOSE k \in UsableParts(r) : \A j \in UsableParts(r) : k <= j]
    ELSE ""

Records == {h[i] : i \in Slots} \cup {last}

\* C9 as stated: the reply is computed by that precedence, and when it is
\* non-empty it is the text of the one outbound message of the handler.
C9_Original ==
    \A rec \in Records : rec.lm = "ok" =>
        /\ rec.bot_reply = ReplyByPrecedence(rec.response)
        /\ (Finished(rec) /\ rec.bot_reply # "") =>
              rec.sent = <<[chat |-> rec.chat, text |-> <<rec.bot_reply>>]>>

\* C9 amended: the reply is computed by that precedence; when it is non-empty
\* it is the text given to send_message, and the text of the one outbound
\* message whenever that call succeeds; when that call raises, the only
\* outbound message there can be is the second fixed string.
C9_ReplyPrecedence ==
    \A rec \in Records : rec.lm = "ok" =>
        /\ rec.bot_reply = ReplyByPrecedence(rec.response)
        /\ (rec.bot_reply # "" /\ rec.attempts = 1) =>
              \/ rec.pc = "gen_send_reply"
              \/ /\ rec.pc = "returned"
                 /\ rec.sent = <<[chat |-> rec.chat, text |-> <<rec.bot_reply>>]>>
        /\ (rec.bot_reply # "" /\ rec.attempts = 2) =>
              \/ rec.pc = "gen_send_error" /\ rec.sent = <<>>
              \/ rec.pc = "raised" /\ rec.sent = <<>>
              \/ /\ rec.pc = "returned"
                 /\ rec.sent = <<[chat |-> rec.chat, text |-> FallbackError]>>
        /\ rec.bot_reply = "" => rec.pc # "gen_send_reply"

\* Empty direct text, a first part without text and a second part with text:
\* the second part's text is the outbound message.
C9_Witness ==
    /\ last.lm = "ok" /\ last.response.text = ""
    /\ last.response.parts = <<NoAttr, "Namaste">>
    /\ last.sent = <<[chat |-> last.chat, text |-> <<"Namaste">>]>>

\* C10: a failure in a handler stays in that handler.  The process keeps
\* polling whatever a handler does; each step changes at most the registry
\* entry of the chat whose update is being dispatched; while updates remain
\* one can be dispatched as soon as a slot is free; and again and again no
\* handler is left in flight, so every handler that was started finishes.
C10_FailuresIsolated ==
    /\ [][proc = "polling" => proc' = "polling"]_vars
    /\ [][\A c \in Chats :
            {item \in conversations' : item[1] = c} # {item \in conversations : item[1] = c}
                => \E i \in Slots : Dispatched(i) /\ h'[i].chat = c]_vars
    /\ []((proc = "polling" /\ \E i \in Slots : h[i].pc = "idle") => CanDispatch)
    /\ []<>(\A i \in Slots : h[i].pc = "idle")

\* A message handler has just ended by propagating an exception while the
\* handler of another chat is suspended, and the process is polling.
C10_Witness ==
    /\ proc = "polling"
    /\ last.kind = "message" /\ last.pc = "raised"
    /\ \E i \in Slots : h[i].pc \in Awaiting /\ h[i].chat # last.chat
    /\ \E item \in conversations : item[1] # last.chat

\* A message handler is suspended at one of its awaits.
Suspended(rec) == rec.kind = "message" /\ rec.pc \in Awaiting

EntryOf(d, c) == {item \in d : item[1] = c}

\* The step in which handler i calls chat_session.send_message (line 122).
Submits(i) == h[i].pc = "gen_indicator" /\ h[i].lm = "none" /\ h'[i].lm # "none"

\* C11: while a message handler for chat c is suspended at an await, no step
\* changes the registry entry of c and no other handler is started for c; and
\* in the step that submits the handler's prompt, the session it is submitted
\* to is the registry's entry for c, to whose history the prompt is appended.
C11_SessionStableWhileSuspended ==
    /\ [][\A i \in Slots : Suspended(h[i]) =>
            /\ EntryOf(conversations', h[i].chat) = EntryOf(conversations, h[i].chat)
            /\ \A j \in Slots : Dispatched(j) => h'[j].chat # h[i].chat]_vars
    /\ [][\A i \in Slots : Submits(i) =>
            /\ EntryOf(conversations, h[i].chat) = {<<h[i].chat, h[i].session>>}
            /\ h'[i].lm = "ok" =>
                  sessions' = [sessions EXCEPT ![h[i].session] =
                                  Append(@, <<"naam:", h[i].name, "sandesh:", h[i].text>>)]]_vars

\* After a start for chat 42, a message for 42 has submitted its prompt to the
\* session the start stored, and its handler awaits the sending of the reply.
C11_Witness ==
    /\ events = 2 /\ conversations = {<<42, 1>>}
    /\ h[1].kind = "message" /\ h[1].pc = "gen_send_reply" /\ ~h[1].created
    /\ h[1].session = 1
    /\ sessions = << <<Prompt("Asha", "How are you?")>> >>

MissingSecret == ~env.google \/ ~env.telegram

\* C12: when the Telegram token or the Google API key is missing, the only
\* step the process takes is the exit with status 1, after which nothing
\* happens: it never polls, no update is dispatched, no handler runs, no
\* session or registry entry is made and no message goes out.
C12_FailFast ==
    /\ [](MissingSecret =>
            /\ proc \in {"init", "exit1"}
            /\ events = 0 /\ conversations = {} /\ sessions = <<>>
            /\ \A i \in Slots : h[i] = Idle
            /\ last = Idle)
    /\ [][(MissingSecret /\ proc = "init") => proc' = "exit1"]_vars
    /\ [][proc = "exit1" => UNCHANGED vars]_vars

\* The API key is there but the token is not: the process has exited.
C12_Witness == proc = "exit1" /\ env.google /\ ~env.telegram

\* The display name an update of chat c carries into its prompt.
NameOf(c) == IF Sender(c) = NoUser THEN Placeholder ELSE Sender(c)

\* C13: with handlers of different chats interleaved in any way, every
\* delivered message is addressed to the chat of the update that produced
\* it; the session a message handler holds is never the registry entry of
\* another chat; a prompt is appended to the session its handler holds, which
\* is the entry of its chat (or the entry a later start for that same chat
\* has replaced), and to no other session; and every prompt in the session
\* stored under a chat comes from an update of that chat.
C13_AddressedToOwnChat ==
    /\ [](\A k \in 1..Len(last.sent) : last.sent[k].chat = last.chat)
    /\ [](\A i \in Slots : Suspended(h[i]) =>
            /\ h[i].session \in 1..Len(sessions)
            /\ \A item \in conversations :
                  item[2] = h[i].session => item[1] = h[i].chat)
    /\ [](\A item \in conversations : \A k \in 1..Len(sessions[item[2]]) :
            sessions[item[2]][k][2] = NameOf(item[1]))
    /\ [][\A i \in Slots : (Submits(i) /\ h'[i].lm = "ok") =>
            /\ \E item \in conversations :
                  item[1] = h[i].chat /\ item[2] >= h[i].session
            /\ \A s \in 1..Len(sessions) :
                  sessions'[s] = IF s = h[i].session
                                 THEN Append(sessions[s],
                                             <<"naam:", NameOf(h[i].chat),
                                               "sandesh:", h[i].text>>)
                                 ELSE sessions[s]]_vars

\* The handlers of chat 7 and of chat 42 ran interleaved: the reply to 7 has
\* just gone to 7 while the handler of 42 is suspended, and each prompt is in
\* the session of its own chat.
C13_Witness ==
    /\ last.kind = "message" /\ last.chat = 7 /\ last.lm = "ok"
    /\ last.sent = <<[chat |-> 7, text |-> <<"I am well">>]>>
    /\ \E i \in Slots :
          /\ h[i].chat = 42 /\ h[i].lm = "ok" /\ h[i].session # last.session
          /\ sessions[h[i].session] = <<Prompt("Asha", "How are you?")>>
          /\ sessions[last.session] = <<Prompt(Placeholder, "How are you?")>>
          /\ {<<7, last.session>>, <<42, h[i].session>>} = conversations

\* C14 as stated: the call of the language model is a suspension point.  A
\* handler awaiting send_chat_action can go on to a state in which that await
\* has returned and the handler is suspended at the model call, before any
\* send_message call is made, so that other handlers can run meanwhile.
C14_LmCallSuspends ==
    \A i \in Slots : h[i].pc = "gen_indicator" =>
        ENABLED (/\ IndicatorDone(i, PlainResponses)
                 /\ h'[i].indicator = "ok"
                 /\ h'[i].attempts = 0)

\* C15: the step that starts a start handler for chat c stores a new, empty
\* session under c and leaves the handler awaiting its one send_message call
\* with nothing delivered yet; the entry stays while the handler is suspended;
\* when the handler ends it has made that one call, and either it returned and
\* delivered to c one message whose text contains the sender's first name
\* (the placeholder when there is no sender), or the send failed, the failure
\* left the handler and nothing was delivered; in both cases the registry
\* holds the new session under c.
C15_StartResetsThenWelcomes ==
    /\ [][\A i \in Slots : (Dispatched(i) /\ h'[i].kind = "start") =>
            /\ Len(sessions') = Len(sessions) + 1
            /\ sessions'[Len(sessions')] = <<>>
            /\ EntryOf(conversations', h'[i].chat) = {<<h'[i].chat, Len(sessions')>>}
            /\ h'[i].pc = "start_send"
            /\ h'[i].sent = <<>> /\ h'[i].attempts = 1]_vars
    /\ [](\A i \in Slots : h[i].kind = "start" =>
            /\ h[i].pc = "start_send"
            /\ EntryOf(conversations, h[i].chat) = {<<h[i].chat, Len(sessions)>>})
    /\ []((last.kind = "start" /\ Finished(last)) =>
            /\ last.attempts = 1
            /\ EntryOf(conversations, last.chat) = {<<last.chat, Len(sessions)>>}
            /\ sessions[Len(sessions)] = <<>>
            /\ last.pc = "returned" =>
                  /\ Len(last.sent) = 1
                  /\ last.sent[1].chat = last.chat
                  /\ \E k \in 1..Len(last.sent[1].text) :
                        last.sent[1].text[k] = NameOf(last.chat)
            /\ last.pc = "raised" => last.sent = <<>>)

\* The welcome for chat 7, which has no sender, could not be sent: the start
\* handler ended with the failure, and the registry holds the new session.
C15_Witness ==
    /\ last.kind = "start" /\ last.pc = "raised" /\ last.chat = 7
    /\ last.sent = <<>> /\ last.name = Placeholder
    /\ <<7, Len(sessions)>> \in conversations

\* C16: no step removes a chat id from the registry: the ids registered
\* before a step are registered after it, whatever the step is (a dispatch,
\* a reset by start, a failing call, a handler ending with an exception).
C16_NeverRemoved ==
    [][\A c \in Chats :
          EntryOf(conversations, c) # {} => EntryOf(conversations', c) # {}]_vars

\* Both chats are registered, and a message handler has just ended with an
\* exception after its language-model call raised.
C16_Witness ==
    /\ {item[1] : item \in conversations} = Chats
    /\ last.kind = "message" /\ last.pc = "raised" /\ last.lm = "raised"
    /\ EntryOf(conversations, last.chat) = {<<last.chat, last.session>>}

\* The history of every session is kept: it is only ever extended at its end.
HistoriesKept ==
    /\ Len(sessions') >= Len(sessions)
    /\ \A s \in 1..Len(sessions) :
          /\ Len(sessions'[s]) >= Len(sessions[s])
          /\ \A k \in 1..Len(sessions[s]) : sessions'[s][k] = sessions[s][k]

\* C17: message updates do not reset history.  The registry entry of a chat
\* changes only in the step that starts a start handler for it or the handler
\* of its first message; a message for a chat that has an entry creates no
\* session, leaves the registry as it is and takes the entry as its session;
\* a language-model call that raises changes neither the registry nor any
\* session; and no step shortens or rewrites the history of a session.  So
\* all prompts of a chat between two starts go to one session.
C17_MessagesKeepSession ==
    /\ [][\A c \in Chats :
            EntryOf(conversations', c) # EntryOf(conversations, c) =>
                \E i \in Slots :
                    /\ Dispatched(i) /\ h'[i].chat = c
                    /\ \/ h'[i].kind = "start"
                       \/ h'[i].kind = "message" /\ EntryOf(conversations, c) = {}]_vars
    /\ [][\A i \in Slots :
            (/\ Dispatched(i) /\ h'[i].kind = "message"
             /\ EntryOf(conversations, h'[i].chat) # {}) =>
                /\ conversations' = conversations
                /\ sessions' = sessions
                /\ EntryOf(conversations, h'[i].chat) = {<<h'[i].chat, h'[i].session>>}
                /\ ~h'[i].created]_vars
    /\ [][\A i \in Slots : (Submits(i) /\ h'[i].lm = "raised") =>
            conversations' = conversations /\ sessions' = sessions]_vars
    /\ [][HistoriesKept]_vars

\* Two messages for chat 42 and no start: one session was created, and it
\* holds the prompts of both.
C17_Witness ==
    /\ events = 2 /\ conversations = {<<42, 1>>} /\ Len(sessions) = 1
    /\ sessions[1] = <<Prompt("Asha", "How are you?"), Prompt("Asha", "How are you?")>>
    /\ \E i \in Slots : h[i].kind = "message" /\ h[i].session = 1 /\ ~h[i].created

\* C18: when the handler of a second message for chat c is started while the
\* handler of c's first message, which created c's session, is suspended and
\* that session is c's entry, the step creates no session, leaves the registry
\* as it is and gives the second handler the first handler's session; of the
\* message handlers in flight for one chat at most one has created a session;
\* and each handler's prompt is appended to the session it holds.
C18_OneSessionForInterleavedMessages ==
    /\ [][\A i \in Slots, j \in Slots :
            (/\ i # j
             /\ Dispatched(i) /\ h'[i].kind = "message"
             /\ Suspended(h[j]) /\ h[j].created /\ h[j].chat = h'[i].chat
             /\ EntryOf(conversations, h[j].chat) = {<<h[j].chat, h[j].session>>}) =>
                /\ sessions' = sessions
                /\ conversations' = conversations
                /\ h'[i].session = h[j].session
                /\ ~h'[i].created]_vars
    /\ [](\A i \in Slots, j \in Slots :
            (/\ i # j /\ Suspended(h[i]) /\ Suspended(h[j])
             /\ h[i].chat = h[j].chat) => ~(h[i].created /\ h[j].created))
    /\ [][\A i \in Slots : (Submits(i) /\ h'[i].lm = "ok") =>
            /\ Len(sessions') = Len(sessions)
            /\ Len(sessions'[h[i].session]) = Len(sessions[h[i].session]) + 1
            /\ sessions'[h[i].session][Len(sessions'[h[i].session])][4] = h[i].text]_vars

\* Two messages for chat 7, which had no session, are handled interleaved:
\* both handlers are suspended at the sending of their reply, the first
\* created the one session there is and both prompts are in it.
C18_Witness ==
    /\ h[1].kind = "message" /\ h[2].kind = "message"
    /\ h[1].chat = 7 /\ h[2].chat = 7
    /\ h[1].pc = "gen_send_reply" /\ h[2].pc = "gen_send_reply"
    /\ h[1].created /\ ~h[2].created
    /\ h[1].session = 1 /\ h[2].session = 1
    /\ Len(sessions) = 1 /\ Len(sessions[1]) = 2
    /\ conversations = {<<7, 1>>}

\* C19 as stated: no message handler calls send_message more than once,
\* failed calls included: when the sending of the reply or of the first fixed
\* string raises, the handler makes no further send_message call.
C19_AtMostOneSendCall ==
    \A rec \in Records : rec.kind = "message" => rec.attempts <= 1

====
